---- MODULE Spec2Model ----
(***************************************************************************)
(* Model of src/base/undistortion.cc: the ray domain probe                 *)
(* (SelectPointOnRay), the undistorted-camera synthesizer                  *)
(* (UndistortCamera), the stereo rectifier (RectifyStereoCameras), the     *)
(* Run of the orchestrators with its image tasks, and the loops of         *)
(* UndistortReconstruction.  Each part has its own specification (SpecRay, *)
(* SpecCam, SpecRect, SpecRun, SpecRecon) that holds the variables of the  *)
(* other parts idle.                                                       *)
(*                                                                         *)
(* Numbers.  Image distances are fixed-point values with 32 fractional     *)
(* bits, kept as two limbs <<hi, lo>> = hi * 2^16 + lo (in units of        *)
(* 2^-32 pixel): for the integer lengths drawn here every midpoint of the  *)
(* 32-round search is such a value, and the double arithmetic of the code  *)
(* is exact on them (35 significant bits).  Angles are whole degrees;      *)
(* world coordinates are whole tangent values.                             *)
(***************************************************************************)
EXTENDS Integers, Sequences, FiniteSets, TLC

VARIABLES
    ray_camera,      \* back-projection of the camera along the ray, per pixel cell
    ray_len,         \* |target - origin|
    ray_max_length,  \* max_length
    ray_limits,      \* [max_angle, max_horizontal_angle, max_vertical_angle]
    ray_out,         \* result of the call, or NoResult
    pc,              \* position of the caller
    options,             \* UndistortCameraOptions of the call of UndistortCamera
    distorted_camera,    \* the source camera (parameter camera)
    undistorted_camera,  \* the camera being built, NoCamera before line 673
    max_valid_radius_sq, \* max_valid_radius, squared
    max_valid_fov_half,  \* max_valid_fov_half of line 693, degrees
    march,               \* locals of the block of lines 701-725
    scale,               \* scale_x, scale_y after the clip of lines 881-882
    probes,              \* arguments of the calls of SelectPointOnRay so far
    fatal_at,            \* the CHECK that ended the call, "" if none
    rect_call,           \* arguments of the call of RectifyStereoCameras
    rect_result,         \* H1, H2, Q it wrote, NoRectification before
    run_kind,            \* the orchestrator whose Run is executed
    rasters,             \* per task, whether each raster it reads is readable
    tasks,               \* per task, its position and the rasters it has read
    run_i,               \* i of the collecting loop of Run
    run_post,            \* steps after the loop that Run has done
    stopped,             \* the stop flag, IsStopped()
    pool_stopped,        \* stopped_ of the thread pool
    reads,               \* per round of the collecting loop, reads of the stop flag
    calls,               \* tasks that called UndistortImage or
                         \* RectifyAndUndistortStereoImages
    outputs,             \* files written
    reconstruction_,     \* the scene the orchestrator holds
    undistorted_reconstruction, \* the local copy of Run
    recon,                   \* *reconstruction of UndistortReconstruction
    recon_before,            \* the same at the entry of the call
    recon_distorted_cameras, \* distorted_cameras of line 935
    recon_cameras_left,      \* cameras the loop of line 936 has yet to visit
    recon_images_left        \* images the loop of line 941 has yet to visit

ray_vars == <<ray_camera, ray_len, ray_max_length, ray_limits, ray_out>>

cam_vars == <<options, distorted_camera, undistorted_camera, max_valid_radius_sq,
              max_valid_fov_half, march, scale, probes, fatal_at>>

rect_vars == <<rect_call, rect_result>>

run_vars == <<run_kind, rasters, tasks, run_i, run_post, stopped, pool_stopped, reads,
              calls, outputs, reconstruction_, undistorted_reconstruction>>

recon_vars == <<recon, recon_before, recon_distorted_cameras, recon_cameras_left,
                recon_images_left>>

vars == <<ray_vars, cam_vars, rect_vars, run_vars, recon_vars, pc>>

\* ------------------------------------------------------------------ bounds

\* Longest segment |target - origin| and number of pixel cells of a ray.
MaxLen == 6

\* Rounds of the binary search.
Rounds == 32

\* ------------------------------------------------------- fixed-point pixels

Limb == 2^16

FromPx(n) == <<n * Limb, 0>>

FloorPx(p) == p[1] \div Limb

\* (a + b) / 2.0, exact on the values of the search.
Midpoint(a, b) ==
    LET lo == a[2] + b[2]
        hi == a[1] + b[1] + (lo \div Limb)
    IN  <<hi \div 2, ((hi % 2) * Limb + (lo % Limb)) \div 2>>

PosLeq(a, b) == a[1] < b[1] \/ (a[1] = b[1] /\ a[2] <= b[2])

PosLess(a, b) == a[1] < b[1] \/ (a[1] = b[1] /\ a[2] < b[2])

\* a + n * 2^-32 pixels, for 0 <= n < 2^16.
PosPlusUlps(a, n) ==
    LET lo == a[2] + n
    IN  <<a[1] + (lo \div Limb), lo % Limb>>

Min(a, b) == IF a < b THEN a ELSE b

Max(a, b) == IF a > b THEN a ELSE b

\* --------------------------------------------------------------- rationals

\* A double is a fraction <<n, d>> with d >= 0; <<1, 0>> is +infinity.
Rat(n, d) == <<n, d>>

RatOfInt(n) == <<n, 1>>

RatLeq(a, b) == a[1] * b[2] <= b[1] * a[2]

RatLess(a, b) == a[1] * b[2] < b[1] * a[2]

RatEq(a, b) == a[1] * b[2] = b[1] * a[2]

RatAdd(a, b) == <<a[1] * b[2] + b[1] * a[2], a[2] * b[2]>>

RatSub(a, b) == <<a[1] * b[2] - b[1] * a[2], a[2] * b[2]>>

RatMul(a, b) == <<a[1] * b[1], a[2] * b[2]>>

\* 1.0 / a; a zero or negative divisor is kept as the sign of the result.
RatInv(a) == IF a[1] >= 0 THEN <<a[2], a[1]>> ELSE <<-a[2], -a[1]>>

RatMin(a, b) == IF RatLess(b, a) THEN b ELSE a

RatMax(a, b) == IF RatLess(a, b) THEN b ELSE a

\* static_cast<size_t> of a double >= 0.
RatFloor(a) == a[1] \div a[2]

\* std::round of a double >= 0.
RatRound(a) == (2 * a[1] + a[2]) \div (2 * a[2])

\* ------------------------------------------------------------------ angles

\* std::atan of a whole tangent value, in degrees rounded down (a comparison
\* with a whole number of degrees is the same on the rounded value).
AtanDeg(t) ==
    CASE t = 0 -> 0
      [] t = 1 -> 45
      [] t = 2 -> 63
      [] t = -1 -> -45
      [] t = -2 -> -64

\* std::atan(world_point.norm()), in degrees rounded down.
AtanNormDeg(w) ==
    LET n2 == w[1] * w[1] + w[2] * w[2]
    IN  CASE n2 = 0 -> 0
          [] n2 = 1 -> 45
          [] n2 = 2 -> 54
          [] n2 = 4 -> 63
          [] n2 = 5 -> 65
          [] n2 = 8 -> 70

\* ------------------------------------------------------- SelectPointOnRay

\* World points a camera may back-project a pixel to.
WorldPoints == {<<0, 0>>, <<2, 2>>}

\* The angle limits of a call: at most one of them below the angles of <<2, 2>>.
RayLimits ==
    {[max_angle |-> a, max_horizontal_angle |-> h, max_vertical_angle |-> v] :
        <<a, h, v>> \in {<<80, 80, 80>>, <<65, 80, 80>>, <<80, 60, 80>>, <<80, 80, 60>>}}

\* camera.ImageToWorld(origin + dir * m): the camera is given along the ray,
\* one world point per pixel cell [k, k + 1), the cell of the target included.
ImageToWorldOnRay(camera, m) == camera[FloorPx(m) + 1]

\* m_valid of the code.
MValid(camera, m, lim) ==
    LET world_point == ImageToWorldOnRay(camera, m)
        vertical_angle == AtanDeg(world_point[2])
        horizontal_angle == AtanDeg(world_point[1])
        full_angle == AtanNormDeg(world_point)
    IN  /\ vertical_angle < lim.max_vertical_angle
        /\ horizontal_angle < lim.max_horizontal_angle
        /\ full_angle < lim.max_angle

\* Mutation of the loop: the search narrows to the invalid half.
RECURSIVE SearchLoopSwapped(_, _, _, _, _, _)
SearchLoopSwapped(camera, lim, l, r, i, evals) ==
    IF i >= Rounds
    THEN [l |-> l, evals |-> evals]
    ELSE LET m == Midpoint(l, r)
         IN  IF MValid(camera, m, lim)
             THEN SearchLoopSwapped(camera, lim, l, m, i + 1, evals + 1)
             ELSE SearchLoopSwapped(camera, lim, m, r, i + 1, evals + 1)

\* The loop of the search from round i on; evals counts the evaluations of
\* m_valid.
RECURSIVE SearchLoop(_, _, _, _, _, _)
SearchLoop(camera, lim, l, r, i, evals) ==
    IF i >= Rounds
    THEN [l |-> l, evals |-> evals]
    ELSE LET m == Midpoint(l, r)
         IN  IF MValid(camera, m, lim)
             THEN SearchLoop(camera, lim, m, r, i + 1, evals + 1)
             ELSE SearchLoop(camera, lim, l, m, i + 1, evals + 1)

\* Mutations of the call: one round less; max_length not applied.
SelectPointOnRayShort(camera, len, max_length, lim) ==
    SearchLoop(camera, lim, FromPx(0), FromPx(Min(max_length, len)), 1, 0)

SelectPointOnRayUnclipped(camera, len, max_length, lim) ==
    SearchLoop(camera, lim, FromPx(0), FromPx(len), 0, 0)

SelectPointOnRay(camera, len, max_length, lim) ==
    SearchLoop(camera, lim, FromPx(0), FromPx(Min(max_length, len)), 0, 0)

\* ------------------------------------------------ the caller of the probe

NoResult == [l |-> <<0, 0>>, evals |-> 0]

RayCameras == [1..(MaxLen + 1) -> WorldPoints]

\* No call of UndistortReconstruction of its own is under way.
ReconIdle ==
    /\ recon = <<>>
    /\ recon_before = <<>>
    /\ recon_distorted_cameras = <<>>
    /\ recon_cameras_left = {}
    /\ recon_images_left = {}

\* No Run of an orchestrator is under way.
RunIdle ==
    /\ run_kind = ""
    /\ rasters = <<>>
    /\ tasks = <<>>
    /\ run_i = 0
    /\ run_post = 0
    /\ stopped = FALSE
    /\ pool_stopped = FALSE
    /\ reads = <<>>
    /\ calls = {}
    /\ outputs = {}
    /\ reconstruction_ = <<>>
    /\ undistorted_reconstruction = <<>>

\* No call of RectifyStereoCameras is under way.
RectIdle ==
    /\ rect_call = <<>>
    /\ rect_result = <<>>

\* No call of UndistortCamera is under way.
RayIdleCamera ==
    /\ options = [camera_model_override |-> ""]
    /\ distorted_camera = [model_id |-> "NONE"]
    /\ undistorted_camera = [model_id |-> "NONE"]
    /\ max_valid_radius_sq = 0
    /\ max_valid_fov_half = 0
    /\ march = [max_radius_sq |-> <<0, 1>>, corner |-> 0, max_valid_fov_half |-> 0]
    /\ scale = <<>>
    /\ probes = {}
    /\ fatal_at = ""

RayInit ==
    /\ RayIdleCamera
    /\ ReconIdle
    /\ RectIdle
    /\ RunIdle
    /\ ray_camera \in RayCameras
    /\ ray_len \in 0..MaxLen
    /\ ray_max_length \in 0..(MaxLen + 1)
    /\ ray_limits \in RayLimits
    /\ ray_out = NoResult
    /\ pc = "ray_call"

CallSelectPointOnRay ==
    /\ pc = "ray_call"
    /\ ray_out' = SelectPointOnRay(ray_camera, ray_len, ray_max_length, ray_limits)
    /\ pc' = "ray_done"
    /\ UNCHANGED <<ray_camera, ray_len, ray_max_length, ray_limits, cam_vars, rect_vars,
                   run_vars, recon_vars>>

RayNext == CallSelectPointOnRay

SpecRay == RayInit /\ [][RayNext]_vars

\* ------------------------------------------------------- UndistortCamera

PinholeFamily == {"SIMPLE_PINHOLE", "PINHOLE"}

\* Camera::VerifyParams: the number of parameters is the one of the model;
\* an unknown model name has no valid parameters.
VerifyParams(c) ==
    CASE c.model_id = "SIMPLE_PINHOLE" -> Len(c.params) = 3
      [] c.model_id = "PINHOLE" -> Len(c.params) = 4
      [] c.model_id = "SIMPLE_RADIAL" -> Len(c.params) = 4
      [] c.model_id = "OPENCV" -> Len(c.params) = 8
      [] OTHER -> FALSE

\* Accessors of the PINHOLE camera under construction: fx, fy, cx, cy.
FocalLengthX(c) == c.params[1]

FocalLengthY(c) == c.params[2]

PrincipalPointX(c) == c.params[3]

PrincipalPointY(c) == c.params[4]

NoCamera == [model_id |-> "NONE", width |-> 0, height |-> 0, params |-> <<>>]

\* Mutations of the CHECKs of the options: max_image_size = 0 let through;
\* the horizontal and vertical field of view checked like the total one.
OptionsPassLoose(o) ==
    /\ RatLeq(RatOfInt(0), o.blank_pixels)
    /\ RatLeq(o.blank_pixels, RatOfInt(1))
    /\ RatLess(RatOfInt(0), o.min_scale)
    /\ RatLeq(o.min_scale, o.max_scale)
    /\ o.max_fov < 180
    /\ o.max_fov > 0
    /\ o.max_vertical_fov <= 180
    /\ o.max_vertical_fov > 0
    /\ o.max_horizontal_fov <= 180
    /\ o.max_horizontal_fov > 0

OptionsPassStrict(o) ==
    /\ RatLeq(RatOfInt(0), o.blank_pixels)
    /\ RatLeq(o.blank_pixels, RatOfInt(1))
    /\ RatLess(RatOfInt(0), o.min_scale)
    /\ RatLeq(o.min_scale, o.max_scale)
    /\ o.max_image_size # 0
    /\ o.max_fov < 180
    /\ o.max_fov > 0
    /\ o.max_vertical_fov < 180
    /\ o.max_vertical_fov > 0
    /\ o.max_horizontal_fov < 180
    /\ o.max_horizontal_fov > 0

\* The CHECKs of the options at entry, in the order of the code.
OptionsPass(o) ==
    /\ RatLeq(RatOfInt(0), o.blank_pixels)
    /\ RatLeq(o.blank_pixels, RatOfInt(1))
    /\ RatLess(RatOfInt(0), o.min_scale)
    /\ RatLeq(o.min_scale, o.max_scale)
    /\ o.max_image_size # 0
    /\ o.max_fov < 180
    /\ o.max_fov > 0
    /\ o.max_vertical_fov <= 180
    /\ o.max_vertical_fov > 0
    /\ o.max_horizontal_fov <= 180
    /\ o.max_horizontal_fov > 0

\* Lines 661-671.
CheckOptions ==
    /\ pc = "entry"
    /\ IF OptionsPass(options)
       THEN pc' = "build" /\ fatal_at' = fatal_at
       ELSE pc' = "fatal" /\ fatal_at' = "options"
    /\ UNCHANGED <<ray_vars, recon_vars, rect_vars, run_vars, options, distorted_camera, undistorted_camera,
                   max_valid_radius_sq, max_valid_fov_half, march, scale, probes>>

\* The CHECKs of lines 958-961 of RectifyStereoCameras.
RectifierAccepts(camera1, camera2) ==
    /\ camera1.model_id = "SIMPLE_PINHOLE" \/ camera1.model_id = "PINHOLE"
    /\ camera2.model_id = "SIMPLE_PINHOLE" \/ camera2.model_id = "PINHOLE"

\* The camera of lines 673-676.
NewPinhole(c) ==
    [model_id |-> "PINHOLE", width |-> c.width, height |-> c.height,
     params |-> <<RatOfInt(0), RatOfInt(0), RatOfInt(0), RatOfInt(0)>>]

\* The camera of lines 679-683.
OverrideCamera(o, c) ==
    [model_id |-> o.camera_model_override, width |-> c.width, height |-> c.height,
     params |-> o.camera_model_override_params]

\* Lines 673-686.
BuildCamera ==
    /\ pc = "build"
    /\ IF options.camera_model_override # ""
       THEN /\ undistorted_camera' = OverrideCamera(options, distorted_camera)
            /\ IF VerifyParams(undistorted_camera')
               THEN pc' = "done" /\ fatal_at' = fatal_at
               ELSE pc' = "fatal" /\ fatal_at' = "override"
       ELSE /\ undistorted_camera' = NewPinhole(distorted_camera)
            /\ pc' = "march"
            /\ fatal_at' = fatal_at
    /\ UNCHANGED <<ray_vars, recon_vars, rect_vars, run_vars, options, distorted_camera, max_valid_radius_sq,
                   max_valid_fov_half, march, scale, probes>>

\* corners[] of lines 697-700, as written.
Corners(c) ==
    <<<<0, 0>>, <<c.width, 0>>, <<c.height, c.width>>, <<0, c.height>>>>

\* (corners[i] - principal_point).norm(), squared.
CornerNormSq(c, i) ==
    LET dx == RatSub(RatOfInt(Corners(c)[i][1]), c.principal_point[1])
        dy == RatSub(RatOfInt(Corners(c)[i][2]), c.principal_point[2])
    IN  RatAdd(RatMul(dx, dx), RatMul(dy, dy))

\* The loop of lines 707-714 from corner i on: the first corner of the
\* largest norm.
RECURSIVE FarthestCorner(_, _, _, _)
FarthestCorner(c, i, max_radius_sq, corner) ==
    IF i > 4
    THEN [max_radius_sq |-> max_radius_sq, corner |-> corner]
    ELSE IF RatLess(max_radius_sq, CornerNormSq(c, i))
         THEN FarthestCorner(c, i + 1, CornerNormSq(c, i), i)
         ELSE FarthestCorner(c, i + 1, max_radius_sq, corner)

\* std::atan(camera.ImageToWorld(i * corner_dir + principal_point).norm()):
\* the back-projected angle at radius i, the same in every direction.
PhiAt(c, i) == IF i <= Len(c.phi) THEN c.phi[i] ELSE c.phi[Len(c.phi)]

\* The loop of lines 717-724 from step i on; fov_half is the variable
\* declared at line 716, radius_sq the max_valid_radius of line 696.
RECURSIVE MarchLoop(_, _, _, _, _, _)
MarchLoop(c, max_fov, max_radius_sq, i, fov_half, radius_sq) ==
    IF ~RatLess(RatOfInt(i * i), max_radius_sq)
    THEN [max_valid_fov_half |-> fov_half, max_valid_radius_sq |-> radius_sq]
    ELSE LET phi == PhiAt(c, i)
         IN  IF phi <= fov_half \/ 2 * phi > max_fov
             THEN [max_valid_fov_half |-> fov_half, max_valid_radius_sq |-> radius_sq]
             ELSE MarchLoop(c, max_fov, max_radius_sq, i + 1, phi, i * i)

\* Lines 689-725.  The half angle found by the loop is kept in the variable
\* of line 716, which hides the one of line 693.
March ==
    /\ pc = "march"
    /\ max_valid_fov_half' = options.max_fov \div 2
    /\ IF distorted_camera.has_principal_point
       THEN LET far == FarthestCorner(distorted_camera, 1, RatOfInt(0), 0)
                out == MarchLoop(distorted_camera, options.max_fov, far.max_radius_sq, 1, 0,
                                 distorted_camera.width * distorted_camera.width
                                 + distorted_camera.height * distorted_camera.height)
            IN  /\ march' = [max_radius_sq |-> far.max_radius_sq, corner |-> far.corner,
                             max_valid_fov_half |-> out.max_valid_fov_half]
                /\ max_valid_radius_sq' = out.max_valid_radius_sq
       ELSE /\ march' = march
            /\ max_valid_radius_sq' = distorted_camera.width * distorted_camera.width
                                      + distorted_camera.height * distorted_camera.height
    /\ pc' = "focal"
    /\ UNCHANGED <<ray_vars, recon_vars, rect_vars, run_vars, options, distorted_camera, undistorted_camera, scale,
                   probes, fatal_at>>

\* The arguments every call of SelectPointOnRay of UndistortCamera passes
\* after origin and target.
ProbeArgs ==
    [max_length_sq |-> max_valid_radius_sq,
     max_angle |-> max_valid_fov_half,
     max_horizontal_angle |-> options.max_horizontal_fov \div 2,
     max_vertical_angle |-> options.max_vertical_fov \div 2]

\* Focal lengths the field-of-view estimate of lines 731-771 may yield.
FocalEstimates == {Rat(3, 1), Rat(7, 2)}

SetFocalLength(c, fx, fy) == [c EXCEPT !.params[1] = fx, !.params[2] = fy]

\* Lines 728-773: the focal length is the largest of the candidates the
\* probes of the corners and of the mid row and column give.
EstimateFocalLength ==
    /\ pc = "focal"
    /\ options.estimate_focal_length_from_fov
    /\ probes' = probes \cup {ProbeArgs}
    /\ \E focal \in FocalEstimates :
           undistorted_camera' = SetFocalLength(undistorted_camera, focal, focal)
    /\ pc' = "principal_point"
    /\ UNCHANGED <<ray_vars, recon_vars, rect_vars, run_vars, options, distorted_camera, max_valid_radius_sq,
                   max_valid_fov_half, march, scale, fatal_at>>

\* Lines 775-784.
CopiedFocalLength(c, u) ==
    IF Len(c.focal) = 1
    THEN SetFocalLength(u, c.focal[1], c.focal[1])
    ELSE IF Len(c.focal) = 2
         THEN SetFocalLength(u, c.focal[1], c.focal[2])
         ELSE u

\* The CHECK of lines 776-777, and the same left out.
FocalLengthsSupportedAny(c) == TRUE

FocalLengthsSupported(c) == Len(c.focal) <= 2

\* Lines 774-785.
CopyFocalLength ==
    /\ pc = "focal"
    /\ ~options.estimate_focal_length_from_fov
    /\ IF FocalLengthsSupported(distorted_camera)
       THEN /\ undistorted_camera' = CopiedFocalLength(distorted_camera, undistorted_camera)
            /\ pc' = "principal_point"
            /\ fatal_at' = fatal_at
       ELSE /\ undistorted_camera' = undistorted_camera
            /\ pc' = "fatal"
            /\ fatal_at' = "focal_length"
    /\ UNCHANGED <<ray_vars, recon_vars, rect_vars, run_vars, options, distorted_camera, max_valid_radius_sq,
                   max_valid_fov_half, march, scale, probes>>

\* Lines 787-789.
CopyPrincipalPoint ==
    /\ pc = "principal_point"
    /\ undistorted_camera' =
           [undistorted_camera EXCEPT !.params[3] = distorted_camera.principal_point[1],
                                      !.params[4] = distorted_camera.principal_point[2]]
    /\ pc' = "scale"
    /\ UNCHANGED <<ray_vars, recon_vars, rect_vars, run_vars, options, distorted_camera, max_valid_radius_sq,
                   max_valid_fov_half, march, scale, probes, fatal_at>>

\* Clip of util/math.h: std::max(low, std::min(value, high)).
Clip(value, low, high) == RatMax(low, RatMin(value, high))

\* Values of min_scale_x, max_scale_x, min_scale_y, max_scale_y (lines
\* 859-872) the probes of the image borders may give.
BorderScales == {Rat(0, 1), Rat(1, 1), Rat(4, 1)}

\* Lines 875-882: the interpolation by blank_pixels, then the clip.
ClippedScale(o, min_scale_xy, max_scale_xy) ==
    Clip(RatInv(RatAdd(RatMul(min_scale_xy, o.blank_pixels),
                       RatMul(max_scale_xy, RatSub(RatOfInt(1), o.blank_pixels)))),
         o.min_scale, o.max_scale)

\* Lines 885-888 with the floor at one pixel left out, and with it.
ScaledSizeNoFloor(scale_xy, size) == RatFloor(RatMul(scale_xy, RatOfInt(size)))

ScaledSize(scale_xy, size) ==
    RatFloor(RatMax(RatOfInt(1), RatMul(scale_xy, RatOfInt(size))))

\* Lines 884-896.
ScaledCamera(c, u, scale_x, scale_y) ==
    LET width == ScaledSize(scale_x, u.width)
        height == ScaledSize(scale_y, u.height)
    IN  [u EXCEPT !.width = width,
                  !.height = height,
                  !.params[3] = RatMul(PrincipalPointX(u), Rat(width, c.width)),
                  !.params[4] = RatMul(PrincipalPointY(u), Rat(height, c.height))]

\* The condition of lines 792-793, and the same without the test.
NeedsScaleAlways(c) == TRUE

NeedsScale(c) == c.model_id # "SIMPLE_PINHOLE" /\ c.model_id # "PINHOLE"

\* Lines 792-897, for a camera that is not of the pinhole family.
ScaleToBorders ==
    /\ pc = "scale"
    /\ NeedsScale(distorted_camera)
    /\ probes' = probes \cup {ProbeArgs}
    /\ \E min_scale_x \in BorderScales, max_scale_x \in BorderScales,
          min_scale_y \in BorderScales, max_scale_y \in BorderScales :
           LET scale_x == ClippedScale(options, min_scale_x, max_scale_x)
               scale_y == ClippedScale(options, min_scale_y, max_scale_y)
           IN  /\ scale' = <<scale_x, scale_y>>
               /\ undistorted_camera' =
                      ScaledCamera(distorted_camera, undistorted_camera, scale_x, scale_y)
    /\ pc' = "max_image_size"
    /\ UNCHANGED <<ray_vars, recon_vars, rect_vars, run_vars, options, distorted_camera, max_valid_radius_sq,
                   max_valid_fov_half, march, fatal_at>>

\* Lines 792-793, for a camera of the pinhole family.
SkipScale ==
    /\ pc = "scale"
    /\ ~NeedsScale(distorted_camera)
    /\ pc' = "max_image_size"
    /\ UNCHANGED <<ray_vars, recon_vars, rect_vars, run_vars, cam_vars>>

\* Camera::Rescale: the size is rounded, and the focal lengths and the
\* principal point follow the rounded size.
Rescale(u, s) ==
    LET width == RatRound(RatMul(s, RatOfInt(u.width)))
        height == RatRound(RatMul(s, RatOfInt(u.height)))
        scale_x == Rat(width, u.width)
        scale_y == Rat(height, u.height)
    IN  [u EXCEPT !.width = width,
                  !.height = height,
                  !.params[1] = RatMul(FocalLengthX(u), scale_x),
                  !.params[2] = RatMul(FocalLengthY(u), scale_y),
                  !.params[3] = RatMul(PrincipalPointX(u), scale_x),
                  !.params[4] = RatMul(PrincipalPointY(u), scale_y)]

\* Lines 899-911 with the test of line 908 left out, and as written.
CappedCameraAlways(o, u) ==
    IF o.max_image_size > 0
    THEN Rescale(u, RatMin(Rat(o.max_image_size, u.width),
                           Rat(o.max_image_size, u.height)))
    ELSE u

CappedCamera(o, u) ==
    IF o.max_image_size > 0
    THEN LET max_image_scale_x == Rat(o.max_image_size, u.width)
             max_image_scale_y == Rat(o.max_image_size, u.height)
             max_image_scale == RatMin(max_image_scale_x, max_image_scale_y)
         IN  IF RatLess(max_image_scale, RatOfInt(1))
             THEN Rescale(u, max_image_scale)
             ELSE u
    ELSE u

\* Lines 899-913.
CapImageSize ==
    /\ pc = "max_image_size"
    /\ undistorted_camera' = CappedCamera(options, undistorted_camera)
    /\ pc' = "done"
    /\ UNCHANGED <<ray_vars, recon_vars, rect_vars, run_vars, options, distorted_camera, max_valid_radius_sq,
                   max_valid_fov_half, march, scale, probes, fatal_at>>

\* ---------------------------------------- the calls of UndistortCamera

\* Size and principal point of the source cameras.
Frames ==
    {[width |-> 1, height |-> 1, principal_point |-> <<Rat(1, 2), Rat(1, 2)>>],
     [width |-> 3, height |-> 1, principal_point |-> <<Rat(3, 2), Rat(1, 2)>>],
     [width |-> 4, height |-> 3, principal_point |-> <<Rat(2, 1), Rat(3, 2)>>],
     [width |-> 2, height |-> 4, principal_point |-> <<Rat(1, 2), Rat(1, 1)>>]}

\* Model and focal length parameters of the source cameras; the last has
\* three focal length parameters.
Lenses ==
    {[model_id |-> "SIMPLE_PINHOLE", focal |-> <<Rat(2, 1)>>],
     [model_id |-> "PINHOLE", focal |-> <<Rat(2, 1), Rat(3, 1)>>],
     [model_id |-> "SIMPLE_RADIAL", focal |-> <<Rat(2, 1)>>],
     [model_id |-> "OPENCV", focal |-> <<Rat(2, 1), Rat(3, 1)>>],
     [model_id |-> "TRIFOCAL", focal |-> <<Rat(2, 1), Rat(3, 1), Rat(5, 1)>>]}

\* Back-projected angle by radius: growing; with a fold at radius 3; zero
\* at radius 1.
Profiles == {<<10, 20, 30, 40, 50, 60>>, <<10, 20, 20, 30, 40, 50>>, <<0, 10, 20, 30, 40, 50>>}

Cameras ==
    {[model_id |-> lens.model_id, width |-> frame.width, height |-> frame.height,
      focal |-> lens.focal, principal_point |-> frame.principal_point,
      has_principal_point |-> TRUE, phi |-> phi] :
        lens \in Lenses, frame \in Frames, phi \in Profiles}

DefaultOptions ==
    [blank_pixels |-> Rat(0, 1), min_scale |-> Rat(1, 5), max_scale |-> Rat(2, 1),
     max_image_size |-> -1, max_fov |-> 100, max_horizontal_fov |-> 100,
     max_vertical_fov |-> 100, camera_model_override |-> "",
     camera_model_override_params |-> <<>>, estimate_focal_length_from_fov |-> FALSE]

\* Options that pass the checks, without override.
PlainOptions ==
    {[DefaultOptions EXCEPT !.blank_pixels = b, !.min_scale = s[1], !.max_scale = s[2],
                            !.max_image_size = m, !.max_fov = f[1],
                            !.max_horizontal_fov = f[2], !.max_vertical_fov = f[3],
                            !.estimate_focal_length_from_fov = e] :
        b \in {Rat(0, 1), Rat(1, 2), Rat(1, 1)},
        s \in {<<Rat(1, 4), Rat(1, 2)>>, <<Rat(1, 2), Rat(2, 1)>>, <<Rat(1, 1), Rat(1, 1)>>},
        m \in {-1, 1, 2, 4},
        f \in {<<100, 100, 100>>, <<60, 180, 180>>},
        e \in BOOLEAN}

\* Options with an override: a pinhole one, a distorted one, one whose
\* parameters do not fit the model, one of an unknown model.
OverrideOptions ==
    {[DefaultOptions EXCEPT !.camera_model_override = v[1],
                            !.camera_model_override_params = v[2],
                            !.max_image_size = m,
                            !.estimate_focal_length_from_fov = e] :
        v \in {<<"PINHOLE", <<Rat(2, 1), Rat(2, 1), Rat(1, 1), Rat(1, 1)>>>>,
               <<"SIMPLE_RADIAL", <<Rat(2, 1), Rat(1, 1), Rat(1, 1), Rat(0, 1)>>>>,
               <<"PINHOLE", <<Rat(2, 1), Rat(1, 1), Rat(1, 1)>>>>,
               <<"FANCY", <<Rat(2, 1)>>>>},
        m \in {-1, 1},
        e \in BOOLEAN}

\* Options at and beyond each bound of the checks, one field at a time, and
\* all of them at once.
BoundOptions ==
    {[DefaultOptions EXCEPT !.blank_pixels = b] : b \in {Rat(-1, 2), Rat(1, 1), Rat(3, 2)}}
    \cup {[DefaultOptions EXCEPT !.min_scale = s[1], !.max_scale = s[2]] :
            s \in {<<Rat(0, 1), Rat(1, 1)>>, <<Rat(-1, 1), Rat(1, 1)>>,
                   <<Rat(2, 1), Rat(1, 1)>>, <<Rat(1, 1), Rat(1, 1)>>}}
    \cup {[DefaultOptions EXCEPT !.max_image_size = 0]}
    \cup {[DefaultOptions EXCEPT !.max_fov = f] : f \in {-10, 0, 180, 200}}
    \cup {[DefaultOptions EXCEPT !.max_horizontal_fov = f] : f \in {-10, 0, 180, 200}}
    \cup {[DefaultOptions EXCEPT !.max_vertical_fov = f] : f \in {-10, 0, 180, 200}}
    \cup {[DefaultOptions EXCEPT !.max_image_size = 0, !.max_horizontal_fov = 180,
                                 !.estimate_focal_length_from_fov = e] : e \in BOOLEAN}
    \cup {[DefaultOptions EXCEPT !.blank_pixels = Rat(3, 2), !.min_scale = Rat(0, 1),
                                 !.max_image_size = 0, !.max_fov = 180,
                                 !.max_horizontal_fov = 200, !.max_vertical_fov = 0]}

Options == PlainOptions \cup OverrideOptions \cup BoundOptions

\* No call of SelectPointOnRay of its own is under way.
CamIdleRay ==
    /\ ray_camera = [k \in 1..(MaxLen + 1) |-> <<0, 0>>]
    /\ ray_len = 0
    /\ ray_max_length = 0
    /\ ray_limits = [max_angle |-> 80, max_horizontal_angle |-> 80, max_vertical_angle |-> 80]
    /\ ray_out = NoResult

CamInit ==
    /\ CamIdleRay
    /\ ReconIdle
    /\ RectIdle
    /\ RunIdle
    /\ options \in Options
    /\ distorted_camera \in Cameras
    /\ undistorted_camera = NoCamera
    /\ max_valid_radius_sq = 0
    /\ max_valid_fov_half = 0
    /\ march = [max_radius_sq |-> <<0, 1>>, corner |-> 0, max_valid_fov_half |-> 0]
    /\ scale = <<>>
    /\ probes = {}
    /\ fatal_at = ""
    /\ pc = "entry"

CamNext ==
    \/ CheckOptions
    \/ BuildCamera
    \/ March
    \/ EstimateFocalLength
    \/ CopyFocalLength
    \/ CopyPrincipalPoint
    \/ ScaleToBorders
    \/ SkipScale
    \/ CapImageSize

SpecCam == CamInit /\ [][CamNext]_vars

\* ------------------------------------------------- RectifyStereoCameras

\* Exact numbers of the rectifier: fractions in lowest terms with a positive
\* denominator; <<1, 0>> is an infinity (of the sign of the zero divisor).
RECURSIVE Gcd(_, _)
Gcd(a, b) == IF b = 0 THEN a ELSE Gcd(b, a % b)

Abs(n) == IF n < 0 THEN -n ELSE n

Reduced(a) ==
    IF a[2] = 0
    THEN <<1, 0>>
    ELSE LET g == Gcd(Abs(a[1]), Abs(a[2]))
             s == IF a[2] < 0 THEN -1 ELSE 1
         IN  <<s * (a[1] \div g), s * (a[2] \div g)>>

Infinite(a) == a[2] = 0

Plus(a, b) == Reduced(RatAdd(a, b))

Minus(a, b) == Reduced(RatSub(a, b))

Times(a, b) == Reduced(RatMul(a, b))

Over(a, b) == Reduced(<<a[1] * b[2], a[2] * b[1]>>)

Neg(a) == <<-a[1], a[2]>>

Zero == RatOfInt(0)

One == RatOfInt(1)

\* The root of a whole number that is a square.
IntSqrt(n) == CHOOSE r \in 0..n : r * r = n

\* Vector3d::norm() of a vector whose norm is a fraction.
Sqrt(a) == <<IntSqrt(a[1]), IntSqrt(a[2])>>

Dot(u, v) == Plus(Plus(Times(u[1], v[1]), Times(u[2], v[2])), Times(u[3], v[3]))

Norm(v) == Sqrt(Dot(v, v))

Cross(u, v) ==
    <<Minus(Times(u[2], v[3]), Times(u[3], v[2])),
      Minus(Times(u[3], v[1]), Times(u[1], v[3])),
      Minus(Times(u[1], v[2]), Times(u[2], v[1]))>>

\* Matrices are sequences of rows.
Identity3 == <<<<One, Zero, Zero>>, <<Zero, One, Zero>>, <<Zero, Zero, One>>>>

Transpose(m) == [i \in 1..3 |-> [j \in 1..3 |-> m[j][i]]]

Column(m, j) == [i \in 1..3 |-> m[i][j]]

MatMul(a, b) == [i \in 1..3 |-> [j \in 1..3 |-> Dot(a[i], Column(b, j))]]

MatVec(m, v) == [i \in 1..3 |-> Dot(m[i], v)]

\* AngleAxisd(angle, axis).toRotationMatrix() for a unit axis, by the cosine
\* and the sine of the angle.
AngleAxisRotation(c, s, axis) ==
    [i \in 1..3 |-> [j \in 1..3 |->
        LET skew == IF i = j THEN Zero
                    ELSE IF (j - i) % 3 = 1
                         THEN Neg(axis[6 - i - j])
                         ELSE axis[6 - i - j]
        IN  Plus(Plus(IF i = j THEN c ELSE Zero, Times(s, skew)),
                 Times(Minus(One, c), Times(axis[i], axis[j])))]]

\* Lines 964-969: the rotation by minus half the angle of the unit
\* quaternion qvec = (w, x, y, z), w >= 0, about its axis; the half angle
\* has cosine w and sine |(x, y, z)|.
HalfRotation(qvec) ==
    LET vec == <<qvec[2], qvec[3], qvec[4]>>
        n == Norm(vec)
    IN  IF n = Zero
        THEN Identity3
        ELSE AngleAxisRotation(qvec[1], Neg(n),
                               <<Over(vec[1], n), Over(vec[2], n), Over(vec[3], n)>>)

\* Lines 972-987: the rotation that turns t onto the X axis.
AxisCorrection(t) ==
    LET x_unit_vector == IF RatLess(t[1], Zero) THEN <<Neg(One), Zero, Zero>>
                         ELSE <<One, Zero, Zero>>
        rotation_axis == Cross(t, x_unit_vector)
        n == Norm(rotation_axis)
    IN  IF n = Zero
        THEN Identity3
        ELSE AngleAxisRotation(Over(<<Abs(t[1][1]), t[1][2]>>, Norm(t)),
                               Over(n, Norm(t)),
                               <<Over(rotation_axis[1], n), Over(rotation_axis[2], n),
                                 Over(rotation_axis[3], n)>>)

\* Camera::MeanFocalLength and Camera::CalibrationMatrix of a camera of the
\* pinhole family with parameters fx, fy, cx, cy.
MeanFocalLength(c) == Over(Plus(FocalLengthX(c), FocalLengthY(c)), RatOfInt(2))

CalibrationMatrix(c) ==
    <<<<FocalLengthX(c), Zero, PrincipalPointX(c)>>,
      <<Zero, FocalLengthY(c), PrincipalPointY(c)>>,
      <<Zero, Zero, One>>>>

\* The inverse of an upper triangular calibration matrix.
CalibrationInverse(k) ==
    <<<<Over(One, k[1][1]), Zero, Neg(Over(k[1][3], k[1][1]))>>,
      <<Zero, Over(One, k[2][2]), Neg(Over(k[2][3], k[2][2]))>>,
      <<Zero, Zero, One>>>>

\* Lines 995-1000 with the vertical principal points added up only, and as
\* written.
SharedCalibrationSum(camera1, camera2) ==
    LET f == RatMin(MeanFocalLength(camera1), MeanFocalLength(camera2))
    IN  <<<<f, Zero, PrincipalPointX(camera1)>>,
          <<Zero, f, Plus(PrincipalPointY(camera1), PrincipalPointY(camera2))>>,
          <<Zero, Zero, One>>>>

SharedCalibration(camera1, camera2) ==
    LET f == RatMin(MeanFocalLength(camera1), MeanFocalLength(camera2))
    IN  <<<<f, Zero, PrincipalPointX(camera1)>>,
          <<Zero, f, Over(Plus(PrincipalPointY(camera1), PrincipalPointY(camera2)),
                          RatOfInt(2))>>,
          <<Zero, Zero, One>>>>

\* Lines 1008-1013.
DisparityMatrix(K, t) ==
    <<<<One, Zero, Zero, Zero>>,
      <<Zero, One, Zero, Zero>>,
      <<Zero, Zero, One, Over(Neg(One), t[1])>>,
      <<Neg(K[2][3]), Neg(K[1][3]), K[1][1], Zero>>>>

\* Lines 963-1013, for cameras that pass the CHECKs of lines 958-961.
Rectification(camera1, camera2, qvec, tvec) ==
    LET R2half == HalfRotation(qvec)
        R1half == Transpose(R2half)
        R_x == AxisCorrection(MatVec(R2half, tvec))
        R1 == MatMul(R_x, R1half)
        R2 == MatMul(R_x, R2half)
        t == MatVec(R_x, MatVec(R2half, tvec))
        K == SharedCalibration(camera1, camera2)
    IN  [H1 |-> MatMul(MatMul(K, R1), CalibrationInverse(CalibrationMatrix(camera1))),
         H2 |-> MatMul(MatMul(K, R2), CalibrationInverse(CalibrationMatrix(camera2))),
         Q |-> DisparityMatrix(K, t),
         K |-> K,
         t |-> t]

NoRectification == [H1 |-> <<>>, H2 |-> <<>>, Q |-> <<>>, K |-> <<>>, t |-> <<>>]

\* Cameras handed to the rectifier, by model, size and fx, fy, cx, cy.
RectCameras ==
    {[model_id |-> v[1], width |-> 4, height |-> 4, params |-> v[2]] :
        v \in {<<"SIMPLE_PINHOLE", <<Rat(2, 1), Rat(2, 1), Rat(1, 1), Rat(1, 1)>>>>,
               <<"PINHOLE", <<Rat(2, 1), Rat(2, 1), Rat(1, 1), Rat(2, 1)>>>>,
               <<"PINHOLE", <<Rat(2, 1), Rat(4, 1), Rat(2, 1), Rat(1, 1)>>>>,
               <<"PINHOLE", <<Rat(4, 1), Rat(4, 1), Rat(1, 1), Rat(1, 1)>>>>,
               <<"SIMPLE_RADIAL", <<Rat(2, 1), Rat(2, 1), Rat(1, 1), Rat(1, 1)>>>>}}

\* Unit quaternions (w, x, y, z) with w >= 0: no rotation, half a turn about
\* z and about y, and a rotation about z whose half angle has cosine 3/5.
Quaternions ==
    {<<One, Zero, Zero, Zero>>, <<Zero, Zero, Zero, One>>, <<Zero, Zero, One, Zero>>,
     <<Rat(3, 5), Zero, Zero, Rat(4, 5)>>}

\* Translations of rational length.
Translations ==
    {<<Rat(1, 10), Zero, Zero>>, <<Rat(-1, 10), Zero, Zero>>, <<Rat(2, 1), Zero, Zero>>,
     <<Zero, Zero, Zero>>, <<Zero, One, Zero>>, <<Rat(3, 1), Rat(4, 1), Zero>>,
     <<Zero, Zero, Rat(-2, 1)>>}

RectInit ==
    /\ RayIdleCamera
    /\ ReconIdle
    /\ CamIdleRay
    /\ RunIdle
    /\ rect_call \in [camera1 : RectCameras, camera2 : RectCameras,
                      qvec : Quaternions, tvec : Translations]
    /\ rect_result = NoRectification
    /\ pc = "rect_call"

\* Lines 954-1014.
RectifyStereoCameras ==
    /\ pc = "rect_call"
    /\ IF RectifierAccepts(rect_call.camera1, rect_call.camera2)
       THEN /\ rect_result' = Rectification(rect_call.camera1, rect_call.camera2,
                                            rect_call.qvec, rect_call.tvec)
            /\ pc' = "rect_done"
       ELSE /\ rect_result' = rect_result
            /\ pc' = "rect_fatal"
    /\ UNCHANGED <<ray_vars, recon_vars, cam_vars, run_vars, rect_call>>

RectNext == RectifyStereoCameras

SpecRect == RectInit /\ [][RectNext]_vars

\* ------------------------------------------ the Run of the orchestrators

\* Image tasks (or stereo pair tasks) of a run, and worker threads of the
\* thread pool.
NumTasks == 3

NumWorkers == 2

Kinds == {"COLMAPUndistorter", "PMVSUndistorter", "CMPMVSUndistorter", "StereoImageRectifier"}

\* Rasters a task reads: Undistort reads one, Rectify the two of its pair.
RastersPerTask(kind) == IF kind = "StereoImageRectifier" THEN 2 ELSE 1

\* UndistortCamera as a term: the call is modelled step by step above.
UndistortedCameraOf(camera) == [model_id |-> "PINHOLE", of |-> camera]

\* WorldToImage(ImageToWorld(xy)) as a term.
Remapped(distorted, undistorted, xy) ==
    [WorldToImage |-> undistorted, ImageToWorld |-> distorted, XY |-> xy]

\* Lines 933-952.
UndistortReconstruction(reconstruction) ==
    LET distorted_cameras == reconstruction.cameras
        cameras == [id \in DOMAIN distorted_cameras |->
                        UndistortedCameraOf(distorted_cameras[id])]
    IN  [cameras |-> cameras,
         images |-> [id \in DOMAIN reconstruction.images |->
                        LET image == reconstruction.images[id]
                        IN  [image EXCEPT !.points2D =
                                [idx \in DOMAIN image.points2D |->
                                    Remapped(distorted_cameras[image.camera_id],
                                             cameras[image.camera_id],
                                             image.points2D[idx])]]]]

\* Lines 197-198 and 312-313 with the scene itself handed to
\* UndistortReconstruction, and as written: a copy is undistorted.
UndistortedInPlace(reconstruction) ==
    [source |-> UndistortReconstruction(reconstruction),
     undistorted |-> UndistortReconstruction(reconstruction)]

UndistortedCopy(reconstruction) ==
    [source |-> reconstruction,
     undistorted |-> UndistortReconstruction(reconstruction)]

\* The steps of Run after the collecting loop: lines 196-207, 311-330; none
\* in CMPMVSUndistorter::Run and StereoImageRectifier::Run.
PostSteps(kind) ==
    CASE kind = "COLMAPUndistorter" ->
            <<"reconstruction", "patch_match_config", "fusion_config",
              "script_photometric", "script_geometric">>
      [] kind = "PMVSUndistorter" ->
            <<"bundle", "visibility", "option_file", "pmvs_script", "cmvs_pmvs_script",
              "colmap_script_photometric", "colmap_script_geometric",
              "cmvs_colmap_script_photometric", "cmvs_colmap_script_geometric">>
      [] OTHER -> <<>>

\* Positions of a task that a worker thread is executing, and of one that
\* is over.
TaskRunning == {"reading", "undistorting", "writing"}

TaskEnded == {"written", "returned"}

\* The position of a task after the read of its raster number read; the
\* same with the stop flag consulted, which the tasks do not do.
AfterReadStopping(kind, readable, read) ==
    IF stopped \/ ~readable THEN "returned"
    ELSE IF read = RastersPerTask(kind) THEN "undistorting" ELSE "reading"

AfterRead(kind, readable, read) ==
    IF ~readable THEN "returned"
    ELSE IF read = RastersPerTask(kind) THEN "undistorting" ELSE "reading"

\* The scene the orchestrators are constructed with.
Scene ==
    [cameras |-> [id \in 1..2 |-> [model_id |-> IF id = 1 THEN "SIMPLE_RADIAL" ELSE "PINHOLE",
                                   id |-> id]],
     images |-> [id \in 1..NumTasks |->
                    [camera_id |-> 1 + (id % 2), points2D |-> <<id, id + 1>>]]]

NoScene == [cameras |-> <<>>, images |-> <<>>]

RunInit ==
    /\ RayIdleCamera
    /\ ReconIdle
    /\ CamIdleRay
    /\ RectIdle
    /\ run_kind \in Kinds
    /\ rasters \in [1..NumTasks -> [1..RastersPerTask(run_kind) -> BOOLEAN]]
    /\ tasks = [k \in 1..NumTasks |-> [pc |-> "unsubmitted", read |-> 0]]
    /\ run_i = 0
    /\ run_post = 0
    /\ stopped = FALSE
    /\ pool_stopped = FALSE
    /\ reads = [i \in 0..(NumTasks - 1) |-> 0]
    /\ calls = {}
    /\ outputs = {}
    /\ reconstruction_ = Scene
    /\ undistorted_reconstruction = NoScene
    /\ pc = "submit"

\* Thread::Stop(), called by another thread at any time of the run.
Stop ==
    /\ pc \in {"submit", "collect", "wait", "pool_stop", "pool_join", "post"}
    /\ ~stopped
    /\ stopped' = TRUE
    /\ UNCHANGED <<ray_vars, recon_vars, cam_vars, rect_vars, pc, run_kind, rasters, tasks, run_i,
                   run_post, pool_stopped, reads, calls, outputs, reconstruction_,
                   undistorted_reconstruction>>

\* Lines 179-182, 289-292, 516-519, 579-583: one round of the loop.
AddTask ==
    /\ pc = "submit"
    /\ LET k == CHOOSE k \in 1..NumTasks :
                    /\ tasks[k].pc = "unsubmitted"
                    /\ \A j \in 1..(k - 1) : tasks[j].pc # "unsubmitted"
       IN  /\ tasks' = [tasks EXCEPT ![k].pc = "queued"]
           /\ pc' = IF k = NumTasks THEN "collect" ELSE "submit"
    /\ UNCHANGED <<ray_vars, recon_vars, cam_vars, rect_vars, run_kind, rasters, run_i, run_post,
                   stopped, pool_stopped, reads, calls, outputs, reconstruction_,
                   undistorted_reconstruction>>

\* Where Run goes on the break of lines 186, 301, 523, 587: to the steps
\* after the loop, in PMVSUndistorter::Run past thread_pool.Stop(); the same
\* with a return in place of the break.
AfterBreakReturning(kind) == "destroy"

AfterBreak(kind) == IF kind = "PMVSUndistorter" THEN "pool_stop" ELSE "post"

\* Lines 184-187, 294-302, 521-524, 585-588: the test of the loop and the
\* read of the stop flag.
CheckStopped ==
    /\ pc = "collect"
    /\ IF run_i >= NumTasks
       THEN pc' = "post" /\ reads' = reads
       ELSE /\ reads' = [reads EXCEPT ![run_i] = @ + 1]
            /\ pc' = IF stopped THEN AfterBreak(run_kind) ELSE "wait"
    /\ UNCHANGED <<ray_vars, recon_vars, cam_vars, rect_vars, run_kind, rasters, tasks, run_i,
                   run_post, stopped, pool_stopped, calls, outputs, reconstruction_,
                   undistorted_reconstruction>>

\* The future of a task is ready when the task is over; the same for a
\* future that never blocks.
FutureReadyAtOnce(task) == TRUE

FutureReady(task) == task.pc \in TaskEnded

\* futures[i].get() of lines 193, 308, 530, 594.
GetFuture ==
    /\ pc = "wait"
    /\ FutureReady(tasks[run_i + 1])
    /\ run_i' = run_i + 1
    /\ pc' = "collect"
    /\ UNCHANGED <<ray_vars, recon_vars, cam_vars, rect_vars, run_kind, rasters, tasks, run_post,
                   stopped, pool_stopped, reads, calls, outputs, reconstruction_,
                   undistorted_reconstruction>>

\* ThreadPool::Stop(), called at line 296 and by the destructor of the pool
\* at the end of every Run: the tasks still queued are dropped; a second
\* call returns at once.
ThreadPoolStop ==
    /\ pc \in {"pool_stop", "destroy"}
    /\ IF pool_stopped
       THEN /\ pc' = IF pc = "destroy" THEN "returned" ELSE "post"
            /\ UNCHANGED <<tasks, pool_stopped>>
       ELSE /\ tasks' = [k \in 1..NumTasks |->
                            IF tasks[k].pc = "queued"
                            THEN [tasks[k] EXCEPT !.pc = "dropped"]
                            ELSE tasks[k]]
            /\ pool_stopped' = TRUE
            /\ pc' = IF pc = "destroy" THEN "destroy_join" ELSE "pool_join"
    /\ UNCHANGED <<ray_vars, recon_vars, cam_vars, rect_vars, run_kind, rasters, run_i, run_post,
                   stopped, reads, calls, outputs, reconstruction_,
                   undistorted_reconstruction>>

\* The join of the worker threads in ThreadPool::Stop().
ThreadPoolJoin ==
    /\ pc \in {"pool_join", "destroy_join"}
    /\ \A k \in 1..NumTasks : tasks[k].pc \notin TaskRunning
    /\ pc' = IF pc = "destroy_join" THEN "returned" ELSE "post"
    /\ UNCHANGED <<ray_vars, recon_vars, cam_vars, rect_vars, run_kind, rasters, tasks, run_i,
                   run_post, stopped, pool_stopped, reads, calls, outputs,
                   reconstruction_, undistorted_reconstruction>>

\* Lines 196-209, 311-332, 533, 597: the next step after the loop, the
\* first of which undistorts a copy of the scene.
PostStep ==
    /\ pc = "post"
    /\ IF run_post < Len(PostSteps(run_kind))
       THEN /\ run_post' = run_post + 1
            /\ outputs' = outputs \cup {<<PostSteps(run_kind)[run_post + 1], 0>>}
            /\ IF run_post = 0
               THEN /\ reconstruction_' = UndistortedCopy(reconstruction_).source
                    /\ undistorted_reconstruction' =
                           UndistortedCopy(reconstruction_).undistorted
               ELSE UNCHANGED <<reconstruction_, undistorted_reconstruction>>
            /\ pc' = pc
       ELSE /\ pc' = "destroy"
            /\ UNCHANGED <<run_post, outputs, reconstruction_, undistorted_reconstruction>>
    /\ UNCHANGED <<ray_vars, recon_vars, cam_vars, rect_vars, run_kind, rasters, tasks, run_i,
                   stopped, pool_stopped, reads, calls>>

\* A free worker thread takes the task at the head of the queue.
StartTask(k) ==
    /\ tasks[k].pc = "queued"
    /\ \A j \in 1..(k - 1) : tasks[j].pc # "queued"
    /\ ~pool_stopped
    /\ Cardinality({j \in 1..NumTasks : tasks[j].pc \in TaskRunning}) < NumWorkers
    /\ tasks' = [tasks EXCEPT ![k].pc = "reading"]
    /\ UNCHANGED <<ray_vars, recon_vars, cam_vars, rect_vars, pc, run_kind, rasters, run_i, run_post,
                   stopped, pool_stopped, reads, calls, outputs, reconstruction_,
                   undistorted_reconstruction>>

\* Lines 220-226, 344-350, 546-552, 620-634: the read of a raster.
ReadBitmap(k) ==
    /\ tasks[k].pc = "reading"
    /\ tasks' = [tasks EXCEPT
                    ![k].read = @ + 1,
                    ![k].pc = AfterRead(run_kind, rasters[k][tasks[k].read + 1],
                                        tasks[k].read + 1)]
    /\ UNCHANGED <<ray_vars, recon_vars, cam_vars, rect_vars, pc, run_kind, rasters, run_i, run_post,
                   stopped, pool_stopped, reads, calls, outputs, reconstruction_,
                   undistorted_reconstruction>>

\* Lines 228-231, 352-355, 554-557, 641-648: the call of UndistortImage or
\* of RectifyAndUndistortStereoImages.
Undistort(k) ==
    /\ tasks[k].pc = "undistorting"
    /\ calls' = calls \cup {k}
    /\ tasks' = [tasks EXCEPT ![k].pc = "writing"]
    /\ UNCHANGED <<ray_vars, recon_vars, cam_vars, rect_vars, pc, run_kind, rasters, run_i, run_post,
                   stopped, pool_stopped, reads, outputs, reconstruction_,
                   undistorted_reconstruction>>

\* Lines 233, 357-358, 559-560, 650-656: the output of the task.
WriteOutput(k) ==
    /\ tasks[k].pc = "writing"
    /\ outputs' = outputs \cup {<<"image", k>>}
    /\ tasks' = [tasks EXCEPT ![k].pc = "written"]
    /\ UNCHANGED <<ray_vars, recon_vars, cam_vars, rect_vars, pc, run_kind, rasters, run_i, run_post,
                   stopped, pool_stopped, reads, calls, reconstruction_,
                   undistorted_reconstruction>>

TaskStep(k) == StartTask(k) \/ ReadBitmap(k) \/ Undistort(k) \/ WriteOutput(k)

RunNext ==
    \/ Stop
    \/ AddTask
    \/ CheckStopped
    \/ GetFuture
    \/ ThreadPoolStop
    \/ ThreadPoolJoin
    \/ PostStep
    \/ \E k \in 1..NumTasks : StartTask(k)
    \/ \E k \in 1..NumTasks : ReadBitmap(k)
    \/ \E k \in 1..NumTasks : Undistort(k)
    \/ \E k \in 1..NumTasks : WriteOutput(k)

SpecRun == RunInit /\ [][RunNext]_vars

\* A worker thread that executes a task keeps running, and so does Run.
SpecRunFair ==
    /\ SpecRun
    /\ \A k \in 1..NumTasks : WF_vars(TaskStep(k))
    /\ WF_vars(AddTask \/ CheckStopped \/ GetFuture \/ ThreadPoolStop \/ ThreadPoolJoin
               \/ PostStep)

\* ------------------------------- UndistortReconstruction, step by step

\* Scenes: two cameras, the first of a distorted model; every image uses
\* either camera and has two points.
Scenes ==
    {[cameras |-> [id \in 1..2 |-> [model_id |-> IF id = 1 THEN model ELSE "PINHOLE",
                                    id |-> id]],
      images |-> [id \in 1..NumTasks |-> [camera_id |-> camera_id[id],
                                          points2D |-> <<id, id + 1>>]]] :
        model \in {"SIMPLE_RADIAL", "OPENCV"}, camera_id \in [1..NumTasks -> 1..2]}

ReconInit ==
    /\ RayIdleCamera
    /\ CamIdleRay
    /\ RectIdle
    /\ RunIdle
    /\ recon \in Scenes
    /\ recon_before = recon
    /\ recon_distorted_cameras = <<>>
    /\ recon_cameras_left = {}
    /\ recon_images_left = {}
    /\ pc = "recon_entry"

\* The camera an image is back-projected through, line 943; the same with
\* distorted_cameras a reference to the cameras of the reconstruction
\* instead of a copy.
DistortedCameraAliased(camera_id) == recon.cameras[camera_id]

DistortedCamera(camera_id) == recon_distorted_cameras[camera_id]

\* Line 935: the copy of the cameras.
CopyCameras ==
    /\ pc = "recon_entry"
    /\ recon_distorted_cameras' = recon.cameras
    /\ recon_cameras_left' = DOMAIN recon.cameras
    /\ recon_images_left' = DOMAIN recon.images
    /\ pc' = "recon_loops"
    /\ UNCHANGED <<ray_vars, cam_vars, rect_vars, run_vars, recon, recon_before>>

\* Lines 936-939: one round of the loop, in the order of the map.
ReplaceCamera(camera_id) ==
    /\ pc = "recon_loops"
    /\ camera_id \in recon_cameras_left
    /\ recon' = [recon EXCEPT !.cameras[camera_id] =
                    UndistortedCameraOf(recon_distorted_cameras[camera_id])]
    /\ recon_cameras_left' = recon_cameras_left \ {camera_id}
    /\ UNCHANGED <<ray_vars, cam_vars, rect_vars, run_vars, recon_before,
                   recon_distorted_cameras, recon_images_left, pc>>

\* Lines 941-951: one round of the loop, in the order of the map.
RemapImage(image_id) ==
    /\ pc = "recon_loops"
    /\ recon_cameras_left = {}
    /\ image_id \in recon_images_left
    /\ LET image == recon.images[image_id]
       IN  recon' = [recon EXCEPT !.images[image_id].points2D =
                        [idx \in DOMAIN image.points2D |->
                            Remapped(DistortedCamera(image.camera_id),
                                     recon.cameras[image.camera_id],
                                     image.points2D[idx])]]
    /\ recon_images_left' = recon_images_left \ {image_id}
    /\ pc' = IF recon_images_left' = {} THEN "recon_done" ELSE pc
    /\ UNCHANGED <<ray_vars, cam_vars, rect_vars, run_vars, recon_before,
                   recon_distorted_cameras, recon_cameras_left>>

ReconNext ==
    \/ CopyCameras
    \/ \E camera_id \in 1..2 : ReplaceCamera(camera_id)
    \/ \E image_id \in 1..NumTasks : RemapImage(image_id)

SpecRecon == ReconInit /\ [][ReconNext]_vars

\* ------------------------------------------------- claims on the probe

\* Whether the points of pixel cell k pass the three angle limits.
CellValid(camera, k, lim) == MValid(camera, FromPx(k), lim)

\* The validity pattern of the ray has one valid stretch, from the origin on.
ValidUpToThreshold(camera, lim) ==
    \A k \in 1..MaxLen : CellValid(camera, k, lim) => CellValid(camera, k - 1, lim)

\* r of the first round, in pixels.
SearchRange == Min(ray_max_length, ray_len)

RECURSIVE Halved(_, _)
Halved(p, k) == IF k = 0 THEN p ELSE Halved(Midpoint(<<0, 0>>, p), k - 1)

\* C1 (as claimed): for any max_length a below the max_length b of the call,
\* the point returned with a is not farther from origin than the one
\* returned with b, whatever the validity pattern of the ray.
C1_Monotonic ==
    pc = "ray_done" =>
        \A a \in 0..ray_max_length :
            PosLeq(SelectPointOnRay(ray_camera, ray_len, a, ray_limits).l, ray_out.l)

\* C1 (amended): when the ray is valid up to one threshold and invalid beyond,
\* the point returned with a <= b is farther than the one returned with b by at
\* most the resolution of the search with b, min(b, |target - origin|) / 2^32.
C1_MonotonicUpToResolution ==
    (pc = "ray_done" /\ ValidUpToThreshold(ray_camera, ray_limits)) =>
        \A a \in 0..ray_max_length :
            PosLeq(SelectPointOnRay(ray_camera, ray_len, a, ray_limits).l,
                   PosPlusUlps(ray_out.l, SearchRange))

\* A call on a ray with a threshold, where a shorter max_length returns a
\* point farther away (within the resolution).
C1_Witness ==
    /\ pc = "ray_done"
    /\ ValidUpToThreshold(ray_camera, ray_limits)
    /\ ~CellValid(ray_camera, MaxLen, ray_limits)
    /\ \E a \in 0..ray_max_length :
           PosLess(ray_out.l, SelectPointOnRay(ray_camera, ray_len, a, ray_limits).l)

\* Some point of the segment within max_length, farther from origin than the
\* returned point by more than the resolution, passes the three limits.
FartherValidPoint ==
    \E k \in 0..SearchRange :
        /\ CellValid(ray_camera, k, ray_limits)
        /\ PosLess(PosPlusUlps(ray_out.l, SearchRange), FromPx(Min(k + 1, SearchRange)))

\* C2 (as claimed): the returned point is the farthest valid one: no point
\* of the segment within max_length beyond it (by more than the resolution
\* of the search) passes the three angle limits.
C2_Farthest == pc = "ray_done" => ~FartherValidPoint

\* C2 (amended): the same, for a ray valid up to one threshold and invalid
\* beyond it.
C2_FarthestOnThreshold ==
    (pc = "ray_done" /\ ValidUpToThreshold(ray_camera, ray_limits)) => ~FartherValidPoint

\* A call that stopped at a threshold inside the range of the search.
C2_Witness ==
    /\ pc = "ray_done"
    /\ ValidUpToThreshold(ray_camera, ray_limits)
    /\ CellValid(ray_camera, 2, ray_limits)
    /\ ~CellValid(ray_camera, 3, ray_limits)
    /\ SearchRange = 5
    /\ PosLess(FromPx(2), ray_out.l)
    /\ PosLess(ray_out.l, FromPx(3))

\* None of the midpoints the search evaluates when every one is invalid.
NoMidpointValid ==
    \A k \in 1..Rounds : ~MValid(ray_camera, Halved(FromPx(SearchRange), k), ray_limits)

\* C3: a call ends after exactly 32 evaluations of m_valid, the returned
\* point is at a distance in [0, min(max_length, |target - origin|)], and it
\* is origin when no evaluated midpoint is valid.
C3_Bounded ==
    pc = "ray_done" =>
        /\ ray_out.evals = 32
        /\ PosLeq(FromPx(0), ray_out.l)
        /\ PosLeq(ray_out.l, FromPx(SearchRange))
        /\ NoMidpointValid => ray_out.l = FromPx(0)

\* A call cut by max_length that returns a point away from origin.
C3_Witness ==
    /\ pc = "ray_done"
    /\ ray_max_length < ray_len
    /\ ray_max_length > 0
    /\ ray_out.evals = 32
    /\ PosLess(FromPx(ray_max_length - 1), ray_out.l)

\* A call where no midpoint is valid although a farther cell is.
C3_WitnessOrigin ==
    /\ pc = "ray_done"
    /\ SearchRange > 0
    /\ NoMidpointValid
    /\ ray_out.l = FromPx(0)

\* ------------------------------------------- claims on UndistortCamera

NoOverride == options.camera_model_override = ""

\* The size of the camera before the step of max_image_size.
WidthBeforeCap ==
    IF scale = <<>>
    THEN distorted_camera.width
    ELSE Max(1, RatFloor(RatMul(scale[1], RatOfInt(distorted_camera.width))))

HeightBeforeCap ==
    IF scale = <<>>
    THEN distorted_camera.height
    ELSE Max(1, RatFloor(RatMul(scale[2], RatOfInt(distorted_camera.height))))

\* C4: the camera UndistortCamera returns has width >= 1 and height >= 1.
C4_SizeAtLeastOne ==
    pc = "done" => undistorted_camera.width >= 1 /\ undistorted_camera.height >= 1

\* Some factor s in [min_scale, max_scale] has floor(s * size) = scaled.
SomeScaleGives(scaled, size) ==
    /\ RatLeq(Rat(scaled, size), options.max_scale)
    /\ RatLess(options.min_scale, Rat(scaled + 1, size))

\* C5 (as claimed): for a camera that is not of the pinhole family, the width
\* and the height before the step of max_image_size are floor(s_x * width)
\* and floor(s_y * height) with s_x and s_y in [min_scale, max_scale].
C5_ScaleInRange ==
    (pc = "max_image_size" /\ scale # <<>>) =>
        /\ SomeScaleGives(undistorted_camera.width, distorted_camera.width)
        /\ SomeScaleGives(undistorted_camera.height, distorted_camera.height)

\* C5 (amended): the factors scale_x and scale_y lie in [min_scale,
\* max_scale], and the width and the height before the step of
\* max_image_size are max(1, floor(scale_x * width)) and
\* max(1, floor(scale_y * height)).
C5_ScaleInRangeFlooredAtOne ==
    (pc = "max_image_size" /\ scale # <<>>) =>
        /\ \A i \in 1..2 : /\ RatLeq(options.min_scale, scale[i])
                           /\ RatLeq(scale[i], options.max_scale)
        /\ undistorted_camera.width = WidthBeforeCap
        /\ undistorted_camera.height = HeightBeforeCap

\* A scaled camera whose width is held at one pixel, below every
\* floor(s * width) with s in the range.
C5_Witness ==
    /\ pc = "max_image_size"
    /\ scale # <<>>
    /\ undistorted_camera.width = 1
    /\ RatLess(RatMul(scale[1], RatOfInt(distorted_camera.width)), RatOfInt(1))
    /\ RatLeq(options.min_scale, scale[1])

\* No size cap is in effect.
NoCapInEffect ==
    \/ options.max_image_size <= 0
    \/ /\ options.max_image_size >= distorted_camera.width
       /\ options.max_image_size >= distorted_camera.height

SameFocalLengths ==
    IF Len(distorted_camera.focal) = 1
    THEN /\ RatEq(FocalLengthX(undistorted_camera), distorted_camera.focal[1])
         /\ RatEq(FocalLengthY(undistorted_camera), distorted_camera.focal[1])
    ELSE /\ RatEq(FocalLengthX(undistorted_camera), distorted_camera.focal[1])
         /\ RatEq(FocalLengthY(undistorted_camera), distorted_camera.focal[2])

\* C6: for a source camera of the pinhole family, without estimate of the
\* focal length, override or size cap in effect, the returned camera has the
\* width, height, focal lengths and principal point of the source.
C6_PinholeUnchanged ==
    (/\ pc = "done"
     /\ distorted_camera.model_id \in PinholeFamily
     /\ ~options.estimate_focal_length_from_fov
     /\ NoOverride
     /\ NoCapInEffect) =>
        /\ undistorted_camera.width = distorted_camera.width
        /\ undistorted_camera.height = distorted_camera.height
        /\ SameFocalLengths
        /\ RatEq(PrincipalPointX(undistorted_camera), distorted_camera.principal_point[1])
        /\ RatEq(PrincipalPointY(undistorted_camera), distorted_camera.principal_point[2])

\* A pinhole camera returned under a max_image_size as large as its width.
C6_Witness ==
    /\ pc = "done"
    /\ distorted_camera.model_id = "PINHOLE"
    /\ ~options.estimate_focal_length_from_fov
    /\ NoOverride
    /\ options.max_image_size = distorted_camera.width
    /\ distorted_camera.width > distorted_camera.height
    /\ undistorted_camera.width = distorted_camera.width

\* C7: the camera UndistortCamera returns is of the pinhole family, so
\* that RectifyStereoCameras accepts it for both sides.
C7_PinholeFamily ==
    pc = "done" =>
        /\ undistorted_camera.model_id \in PinholeFamily
        /\ RectifierAccepts(undistorted_camera, undistorted_camera)

\* The bounds of the options other than max_image_size hold.
OtherBoundsHold ==
    /\ RatLeq(RatOfInt(0), options.blank_pixels)
    /\ RatLeq(options.blank_pixels, RatOfInt(1))
    /\ RatLess(RatOfInt(0), options.min_scale)
    /\ RatLeq(options.min_scale, options.max_scale)
    /\ \A f \in {options.max_fov, options.max_horizontal_fov, options.max_vertical_fov} :
           0 < f /\ f < 180

ClaimedBoundViolated ==
    \/ RatLess(options.blank_pixels, RatOfInt(0))
    \/ RatLess(RatOfInt(1), options.blank_pixels)
    \/ RatLeq(options.min_scale, RatOfInt(0))
    \/ RatLess(options.max_scale, options.min_scale)
    \/ \E f \in {options.max_fov, options.max_horizontal_fov, options.max_vertical_fov} :
           f <= 0 \/ f >= 180

\* The bounds as the code checks them.
CheckedBoundViolated ==
    \/ RatLess(options.blank_pixels, RatOfInt(0))
    \/ RatLess(RatOfInt(1), options.blank_pixels)
    \/ RatLeq(options.min_scale, RatOfInt(0))
    \/ RatLess(options.max_scale, options.min_scale)
    \/ options.max_image_size = 0
    \/ options.max_fov <= 0 \/ options.max_fov >= 180
    \/ \E f \in {options.max_horizontal_fov, options.max_vertical_fov} :
           f <= 0 \/ f > 180

\* C9 (as claimed): the call fails at the checks of the options, before a
\* camera is built, exactly when blank_pixels is outside [0, 1], min_scale
\* <= 0, min_scale > max_scale, or one of the three maximum fields of view
\* is outside (0, 180).
C9_FatalExactlyOnClaimedBounds ==
    pc # "entry" =>
        /\ fatal_at = "options" <=> ClaimedBoundViolated
        /\ fatal_at = "options" => undistorted_camera = NoCamera

\* C9 (amended): the same with max_image_size = 0 among the violations and
\* with (0, 180], 180 included, for the horizontal and the vertical maximum
\* field of view.
C9_FatalExactlyOnCheckedBounds ==
    pc # "entry" =>
        /\ fatal_at = "options" <=> CheckedBoundViolated
        /\ fatal_at = "options" => undistorted_camera = NoCamera

\* A call with a horizontal maximum field of view of 180 that returned.
C9_Witness ==
    /\ pc = "done"
    /\ options.max_horizontal_fov = 180
    /\ options.max_fov < 180
    /\ fatal_at = ""

\* C10 (as claimed): for a source camera with more than two focal length
\* parameters the call never returns, and the failure comes before the
\* radial march.
C10_FatalAtEntry ==
    Len(distorted_camera.focal) > 2 =>
        /\ pc # "done"
        /\ fatal_at = "focal_length" => march.corner = 0

\* C10 (amended): the CHECK of the focal length parameters fails only for a
\* camera with more than two of them, only without override and without
\* estimate of the focal length, after the radial march and before any
\* probe; with an override or with the estimate the call of such a camera
\* returns.
C10_FatalOnCopyOnly ==
    /\ fatal_at = "focal_length" =>
           /\ Len(distorted_camera.focal) > 2
           /\ ~options.estimate_focal_length_from_fov
           /\ NoOverride
           /\ march.corner # 0
           /\ probes = {}
           /\ pc = "fatal"
    /\ (Len(distorted_camera.focal) > 2 /\ pc = "done") =>
           options.estimate_focal_length_from_fov \/ ~NoOverride
    /\ ~(/\ Len(distorted_camera.focal) > 2
         /\ NoOverride
         /\ ~options.estimate_focal_length_from_fov
         /\ pc \in {"principal_point", "scale", "max_image_size"})

\* A camera with three focal length parameters returned by the estimate of
\* the focal length.
C10_Witness ==
    /\ Len(distorted_camera.focal) > 2
    /\ NoOverride
    /\ options.estimate_focal_length_from_fov
    /\ pc = "done"
    /\ probes # {}

\* The same camera stopped by the CHECK after the march.
C10_WitnessFatal ==
    /\ fatal_at = "focal_length"
    /\ march.corner # 0

\* The larger side of a camera.
LargerSide(u) == Max(u.width, u.height)

\* C11: with a positive max_image_size and no override the returned camera
\* has max(width, height) <= max_image_size, and the step of max_image_size
\* never enlarges a camera and leaves a camera whose width and height are
\* both at most max_image_size as it was: size, focal lengths, principal
\* point.
C11_CappedNeverUpscaled ==
    /\ [](pc = "done" /\ NoOverride /\ options.max_image_size > 0
            => LargerSide(undistorted_camera) <= options.max_image_size)
    /\ [][pc = "max_image_size" /\ options.max_image_size > 0
            => /\ undistorted_camera'.width <= undistorted_camera.width
               /\ undistorted_camera'.height <= undistorted_camera.height
               /\ LargerSide(undistorted_camera) <= options.max_image_size
                    => undistorted_camera' = undistorted_camera]_vars

\* A camera larger than max_image_size has been rescaled.
C11_Witness ==
    /\ pc = "done"
    /\ NoOverride
    /\ options.max_image_size > 0
    /\ Max(WidthBeforeCap, HeightBeforeCap) > options.max_image_size
    /\ LargerSide(undistorted_camera) = options.max_image_size

\* A camera smaller than max_image_size has passed the step.
C11_WitnessUnchanged ==
    /\ pc = "done"
    /\ NoOverride
    /\ options.max_image_size > LargerSide(undistorted_camera)
    /\ undistorted_camera.width = WidthBeforeCap

\* ------------------------------------- claims on RectifyStereoCameras

\* Twice the same camera, no rotation, a translation along x with t_x # 0.
IdenticalAlongX ==
    /\ rect_call.camera1 = rect_call.camera2
    /\ rect_call.qvec = <<One, Zero, Zero, Zero>>
    /\ rect_call.tvec[1] # Zero
    /\ rect_call.tvec[2] = Zero
    /\ rect_call.tvec[3] = Zero

IdentityAndDepthTerm ==
    /\ rect_result.H1 = Identity3
    /\ rect_result.H2 = Identity3
    /\ rect_result.Q[3][4] = Over(Neg(One), rect_call.tvec[1])

\* C12 (as claimed): for two identical cameras of the pinhole family, no
\* rotation and a translation along x with t_x # 0, H1 = H2 = identity and
\* Q[2][3] = -1 / t_x.
C12_IdentityForIdentical ==
    pc = "rect_done" /\ IdenticalAlongX => IdentityAndDepthTerm

\* C12 (amended): the same for cameras whose two focal lengths are equal.
C12_IdentityForEqualFocalLengths ==
    pc = "rect_done" /\ IdenticalAlongX
        /\ FocalLengthX(rect_call.camera1) = FocalLengthY(rect_call.camera1)
      => IdentityAndDepthTerm

\* The scenario t = (0.1, 0, 0): Q[2][3] = -10.
C12_Witness ==
    /\ pc = "rect_done"
    /\ IdenticalAlongX
    /\ FocalLengthX(rect_call.camera1) = FocalLengthY(rect_call.camera1)
    /\ rect_call.tvec[1] = Rat(1, 10)
    /\ rect_result.H1 = Identity3
    /\ rect_result.Q[3][4] = RatOfInt(-10)

\* C13: a call that returns has a rotated baseline with t_x # 0 and wrote a
\* finite Q[2][3].
C13_FiniteDepthTerm ==
    pc = "rect_done" => rect_result.t[1] # Zero /\ ~Infinite(rect_result.Q[3][4])

\* [x, y, d, 1] * Q.
RowTimesQ(row, q) ==
    [j \in 1..4 |->
        Plus(Plus(Times(row[1], q[1][j]), Times(row[2], q[2][j])),
             Plus(Times(row[3], q[3][j]), Times(row[4], q[4][j])))]

\* Pixels and disparities: whole and half values.
DisparityPoints ==
    {<<x, y, d, One>> : x \in {Zero, Rat(3, 1)}, y \in {Zero, Rat(1, 2)},
                        d \in {Zero, Rat(2, 1)}}

\* C20: K has cx of camera 1, the mean cy and the smaller mean focal length
\* f, and [x, y, d, 1] * Q = [x - cx, y - cy, f, -d / t_x].
C20_DisparityLayout ==
    pc = "rect_done" =>
        LET cx == PrincipalPointX(rect_call.camera1)
            cy == Over(Plus(PrincipalPointY(rect_call.camera1),
                            PrincipalPointY(rect_call.camera2)), RatOfInt(2))
            f == RatMin(MeanFocalLength(rect_call.camera1),
                        MeanFocalLength(rect_call.camera2))
        IN  /\ rect_result.K[1][3] = cx
            /\ rect_result.K[2][3] = cy
            /\ rect_result.K[1][1] = f
            /\ \A p \in DisparityPoints :
                   RowTimesQ(p, rect_result.Q) =
                       <<Minus(p[1], cx), Minus(p[2], cy), f,
                         Times(p[3], Over(Neg(One), rect_result.t[1]))>>

\* ------------------------------- claims on the march of UndistortCamera

\* The march of the call, if any, is over.
MarchDone == pc \in {"focal", "principal_point", "scale", "max_image_size"}
             \/ (pc = "done" /\ NoOverride)

\* Step i of the march is within the march length, the angle at radius i is
\* larger than at radius i - 1 (0 at the principal point), and twice the
\* angle is at most max_fov.
StepPasses(i) ==
    /\ RatLess(RatOfInt(i * i), march.max_radius_sq)
    /\ PhiAt(distorted_camera, i) > (IF i = 1 THEN 0 ELSE PhiAt(distorted_camera, i - 1))
    /\ 2 * PhiAt(distorted_camera, i) <= options.max_fov

\* The number of consecutive steps from radius 1 on that pass.
PassedSteps ==
    CHOOSE n \in 0..(distorted_camera.width + distorted_camera.height) :
        /\ \A i \in 1..n : StepPasses(i)
        /\ ~StepPasses(n + 1)

\* C17: the valid radius the march leaves is the number of consecutive
\* steps that passed, zero when the first step fails or the farthest corner
\* is at most one pixel away.
C17_RadiusIsPassedSteps ==
    MarchDone => max_valid_radius_sq = PassedSteps * PassedSteps

\* The four corners of a W x H image.
ImageCorners(c) == {<<0, 0>>, <<c.width, 0>>, <<c.width, c.height>>, <<0, c.height>>}

\* The squared distance of a point from the principal point.
DistanceSq(c, p) ==
    LET dx == RatSub(RatOfInt(p[1]), c.principal_point[1])
        dy == RatSub(RatOfInt(p[2]), c.principal_point[2])
    IN  RatAdd(RatMul(dx, dx), RatMul(dy, dy))

\* C18: the march runs towards an image corner that is farthest from the
\* principal point among (0,0), (W,0), (W,H), (0,H), its length bound is the
\* distance of that corner, and the corner probes aim at these four corners.
C18_FarthestImageCorner ==
    MarchDone =>
        LET chosen == Corners(distorted_camera)[march.corner]
        IN  /\ chosen \in ImageCorners(distorted_camera)
            /\ \A p \in ImageCorners(distorted_camera) :
                   RatLeq(DistanceSq(distorted_camera, p), DistanceSq(distorted_camera, chosen))
            /\ RatEq(march.max_radius_sq, DistanceSq(distorted_camera, chosen))
            /\ {Corners(distorted_camera)[i] : i \in 1..4} = ImageCorners(distorted_camera)

\* C19: when the march stopped at a half angle below max_fov / 2, every call
\* of SelectPointOnRay is given that half angle as its limit of the total
\* angle.
C19_ProbesGetMarchAngle ==
    MarchDone /\ march.max_valid_fov_half < options.max_fov \div 2
      => \A probe \in probes : probe.max_angle = march.max_valid_fov_half

\* ------------------------------------- claims on the Run of the orchestrators

\* Some raster of task k cannot be read.
Unreadable(k) == \E j \in DOMAIN rasters[k] : ~rasters[k][j]

\* C14: the stop flag is read by the collecting loop only, once per round
\* and before the wait on the future of the round; a task that a worker has
\* started is never taken back or cut short, returns without output only on
\* a raster it could not read, and comes to its end whatever the stop flag.
C14_StartedTaskRunsToEnd ==
    /\ [](/\ \A i \in DOMAIN reads : reads[i] <= 1
          /\ pc = "wait" => reads[run_i] = 1
          /\ \A k \in DOMAIN tasks :
                 tasks[k].pc = "returned" => ~rasters[k][tasks[k].read])
    /\ [][/\ reads' # reads => pc = "collect"
          /\ \A k \in DOMAIN tasks :
                 tasks[k].pc \in TaskRunning
                     => tasks'[k].pc \in TaskRunning \cup TaskEnded]_vars
    /\ \A k \in 1..NumTasks :
           (tasks[k].pc \in TaskRunning) ~> (tasks[k].pc \in TaskEnded)

\* Run has left the loop on the stop flag while a task is under way.
C14_Witness ==
    /\ stopped
    /\ pc = "post"
    /\ run_i = 0
    /\ \E k \in DOMAIN tasks : tasks[k].pc = "undistorting"

C16_SceneUnchanged ==
    run_kind # "" => reconstruction_ = Scene

\* Run has undistorted its copy of the scene, and a task has written.
C16_Witness ==
    /\ pc = "returned"
    /\ undistorted_reconstruction = UndistortReconstruction(Scene)
    /\ undistorted_reconstruction # Scene
    /\ \E k \in DOMAIN tasks : <<"image", k>> \in outputs

\* -------------------------------- claims on UndistortReconstruction

\* C21: after UndistortReconstruction every camera is UndistortCamera of
\* the camera the reconstruction had at entry, and every 2D point is the
\* point at entry taken through ImageToWorld of the entry camera of its
\* image and WorldToImage of the replacement; at no time is a point
\* back-projected through a camera that is not an entry camera; the result
\* is the one Run hands on.
C21_RemappedThroughOriginal ==
    /\ pc \in {"recon_loops", "recon_done"} =>
           \A id \in DOMAIN recon.images :
               id \notin recon_images_left =>
                   \A idx \in DOMAIN recon.images[id].points2D :
                       LET before == recon_before.cameras[recon.images[id].camera_id]
                       IN  recon.images[id].points2D[idx] =
                               [WorldToImage |-> UndistortedCameraOf(before),
                                ImageToWorld |-> before,
                                XY |-> recon_before.images[id].points2D[idx]]
    /\ pc = "recon_done" =>
           /\ \A id \in DOMAIN recon.cameras :
                  recon.cameras[id] = UndistortedCameraOf(recon_before.cameras[id])
           /\ recon = UndistortReconstruction(recon_before)

\* Two images that share the distorted camera have been remapped.
C21_Witness ==
    /\ pc = "recon_done"
    /\ recon_before.images[1].camera_id = 1
    /\ recon_before.images[2].camera_id = 1
    /\ recon.images[2].points2D[1].ImageToWorld = recon_before.cameras[1]
    /\ recon.cameras[1] # recon_before.cameras[1]

\* ----------------------------- claims on the steps of Run after the loop

\* The files the steps after the loop write.
PostOutputs == {<<PostSteps(run_kind)[n], 0>> : n \in 1..Len(PostSteps(run_kind))}

\* C22: in COLMAPUndistorter::Run and PMVSUndistorter::Run every task is
\* submitted before the first read of the stop flag; a round that finds the
\* flag set leaves the loop without waiting and without skipping a step
\* after the loop; every run comes to its return, and has then done every
\* step after the loop, stopped or not.
C22_PostStepsInEveryRun ==
    /\ [](run_kind \in {"COLMAPUndistorter", "PMVSUndistorter"} =>
            /\ (\E i \in DOMAIN reads : reads[i] > 0)
                   => \A k \in DOMAIN tasks : tasks[k].pc # "unsubmitted"
            /\ pc = "returned" => PostOutputs \subseteq outputs)
    /\ [][(/\ run_kind \in {"COLMAPUndistorter", "PMVSUndistorter"}
           /\ pc = "collect"
           /\ stopped
           /\ run_i < NumTasks
           /\ pc' # pc)
            => (/\ pc' \in {"post", "pool_stop"}
                /\ run_i' = run_i
                /\ run_post' = 0
                /\ outputs' = outputs)]_vars
    /\ (run_kind \in {"COLMAPUndistorter", "PMVSUndistorter"})
           ~> (pc = "returned" /\ PostOutputs \subseteq outputs)

\* COLMAPUndistorter::Run, stopped, has written the reconstruction while a
\* task it submitted is still under way and another still queued.
C22_Witness ==
    /\ run_kind = "COLMAPUndistorter"
    /\ stopped
    /\ run_i = 0
    /\ <<"reconstruction", 0>> \in outputs
    /\ \E k \in DOMAIN tasks : tasks[k].pc \in TaskRunning
    /\ \E k \in DOMAIN tasks : tasks[k].pc = "queued"

\* PMVSUndistorter::Run, stopped, has returned with every step done and a
\* submitted task that never ran.
C22_WitnessDropped ==
    /\ run_kind = "PMVSUndistorter"
    /\ stopped
    /\ pc = "returned"
    /\ PostOutputs \subseteq outputs
    /\ \E k \in DOMAIN tasks : tasks[k].pc = "dropped"

============================================================================
